---- MODULE Spec2Model ----
(***************************************************************************)
(* Story carousel: the photo viewer (PhotoCarouselPage) and the video      *)
(* viewer (VideoCarouselPage) of the story-carousel front end, with the    *)
(* hooks they share (useWheelAndSwipe, useVisibilityToggle) and the        *)
(* Segment of the video timeline.                                          *)
(*                                                                         *)
(* React is modelled as it schedules the code: a state setter appends to   *)
(* the component's update queue (every updater of the index is a constant  *)
(* function, so the queue is its last entry); Render commits the queue;    *)
(* the passive effects of a commit run later, in FlushEffects, and before  *)
(* the next render at the latest; a discrete event (click, touchend, play, *)
(* pause) renders its own update and flushes the effects synchronously;    *)
(* updates made by wheel, ended and animation-frame callbacks are rendered *)
(* by a later task, wheel and default updates in one batch.  A setter      *)
(* called with the value the state already has, nothing being queued, is   *)
(* dropped.  Time advances in steps of TickMs, and only when React has no  *)
(* work left and the animation frame of the instant has run.               *)
(*                                                                         *)
(* Spec is the running viewer.  SpecGo applies go on its own, to every     *)
(* argument in -MaxArg..MaxArg and every item count in 1..MaxCount.        *)
(***************************************************************************)
EXTENDS Integers, Sequences, FiniteSets, TLC

\* ---- program constants ----
PhotoCount == 4
VideoCount == 3
WheelThrottleMs == 400
WheelDeltaMin == 20
SwipeThreshold == 40
DurationMs == 5000
ClampMs == 10
ExitMs == 350

\* ---- bounds of the model ----
TickMs == 250
VideoMs == 500
MaxArg == 9
MaxCount == 4
MaxOrphans == 2

Pages == {"photos", "videos"}
Slots == 0..(VideoCount - 1)
WheelDeltas == {-20, -19, 19, 20}
StartPoints == {<<50, 5>>}
EndPoints == {<<0, 10>>, <<70, 10>>, <<100, 5>>, <<10, 5>>, <<90, 5>>, <<110, 65>>, <<100, 65>>}

VARIABLES
  page,        \* the mounted viewer (the route)
  index,       \* useState index, as committed by the last render
  qIndex,      \* pending setIndex update: <<>> or <<value>>
  progress,    \* photo viewer: useState progress, held as p * DurationMs
  qProgress,   \* pending setProgress update: <<>> or <<value>>
  effPending,  \* a commit changed the index and its passive effects have not run
  listeners,   \* the registered window listener sets, each by the index its next/prev closed over
  touchStart,  \* touchStartX/touchStartY refs: <<>> (null) or <<x, y>>
  isThrottled, \* isThrottled ref
  timers,      \* pending setTimeout release timers, by remaining ms
  rafCur,      \* photo viewer: raf ref (0: null, or the id of a callback no longer scheduled)
  rafQueue,    \* scheduled animation-frame callbacks: [id, kind, idx, src, at]
  startAge,    \* photo viewer: performance.now() - startTs.current, saturated at DurationMs
  frameDue,    \* the animation frame of the current instant has not run yet
  menuOpen,    \* useState menuOpen
  visible,     \* useVisibilityToggle visible
  qVisible,    \* pending setVisible update: <<>> or <<value>>
  moveSees,    \* the visible that the registered mousemove listener closed over
  moveEff,     \* a commit changed visible and the mousemove effect has not run
  orphanRaf,   \* animation-frame callbacks that viewers left scheduled when they were unmounted
  orphanListeners, \* listener sets that viewers left registered when they were unmounted
  exitLeft,    \* video viewer: ms for which a replaced element that plays still fades out (0: none)
  isPlaying,   \* video viewer: useState isPlaying
  vState,      \* the active video element: "idle", "starting" (play asked), "playing", "ended"
  vTime,       \* the active video element: currentTime in ms
  segRef,      \* per Segment: the videoRef prop: "none", "cur" (the slot's element) or "prev" (the one it replaced)
  segProgress, \* per Segment: useState progress, as a ratio <<num, den>>
  qSeg,        \* per Segment: pending setProgress update
  segRaf,      \* per Segment: raf ref
  segEff,      \* the Segments whose effect has to run
  lastOp,      \* observer: "swipeNext", "swipePrev", "ended", "go" or "shifted" right after that step, "mount" at the start, else "none"
  rtStart,     \* observer: <<s>> after a Next click at index s, <<s, 1>> after the Previous click that follows
  wheelNavAge, \* observer: ms since the last navigation by a wheel event, saturated
  wheelGap,    \* observer: wheelNavAge as it was at the last navigation by a wheel event
  activeAge,   \* observer: ms since the current index was committed, saturated
  autoCount,   \* observer: next() calls made by step since the timer was started
  autoGap,     \* observer: activeAge as it was at the last next() call made by step
  callArg,     \* harness of go: the argument
  callCount    \* harness of go: the item count

vars == <<page, index, qIndex, progress, qProgress, effPending, listeners,
          touchStart, isThrottled, timers, rafCur, rafQueue, startAge,
          frameDue, menuOpen, visible, isPlaying, vState, vTime,
          segRef, segProgress, qSeg, segRaf, segEff, lastOp, rtStart,
          wheelNavAge, wheelGap, activeAge, autoCount, autoGap, callArg,
          callCount, qVisible, moveSees, moveEff, exitLeft, orphanRaf,
          orphanListeners>>

Abs(x) == IF x < 0 THEN -x ELSE x
Min(a, b) == IF a < b THEN a ELSE b
Max(a, b) == IF a > b THEN a ELSE b

\* JavaScript %: the remainder takes the sign of the dividend
JsRem(a, n) == IF a >= 0 THEN a % n ELSE -((-a) % n)

\* Math.min(1, a / b) for a >= 0, b > 0, as a ratio
Ratio(a, b) == IF a >= b THEN <<1, 1>> ELSE IF a = 0 THEN <<0, 1>> ELSE <<a, b>>

total(p) == IF p = "photos" THEN PhotoCount ELSE VideoCount

\* a go that leaves the item count out of the sum
GoValueNoShift(i, n) == JsRem(i, n)

\* the value the updater of go(i) returns
GoValue(i, n) == JsRem(i + n, n)

\* the component instance as a record, so that handlers compose
Cur ==
  [page |-> page, index |-> index, qIndex |-> qIndex, progress |-> progress,
   qProgress |-> qProgress, effPending |-> effPending,
   listeners |-> listeners, touchStart |-> touchStart,
   isThrottled |-> isThrottled, timers |-> timers, rafCur |-> rafCur,
   rafQueue |-> rafQueue, startAge |-> startAge, menuOpen |-> menuOpen,
   visible |-> visible, isPlaying |-> isPlaying, vState |-> vState,
   vTime |-> vTime, segRef |-> segRef,
   segProgress |-> segProgress, qSeg |-> qSeg, segRaf |-> segRaf,
   segEff |-> segEff, lastOp |-> lastOp, wheelNavAge |-> wheelNavAge,
   wheelGap |-> wheelGap, activeAge |-> activeAge, autoCount |-> autoCount,
   autoGap |-> autoGap, qVisible |-> qVisible, moveSees |-> moveSees,
   moveEff |-> moveEff, exitLeft |-> exitLeft, orphanRaf |-> orphanRaf,
   orphanListeners |-> orphanListeners]

Install(s) ==
  \E r \in {s} :
    /\ page' = r.page
    /\ index' = r.index
    /\ qIndex' = r.qIndex
    /\ progress' = r.progress
    /\ qProgress' = r.qProgress
    /\ effPending' = r.effPending
    /\ listeners' = r.listeners
    /\ touchStart' = r.touchStart
    /\ isThrottled' = r.isThrottled
    /\ timers' = r.timers
    /\ rafCur' = r.rafCur
    /\ rafQueue' = r.rafQueue
    /\ startAge' = r.startAge
    /\ menuOpen' = r.menuOpen
    /\ visible' = r.visible
    /\ isPlaying' = r.isPlaying
    /\ vState' = r.vState
    /\ vTime' = r.vTime
    /\ segRef' = r.segRef
    /\ segProgress' = r.segProgress
    /\ qSeg' = r.qSeg
    /\ segRaf' = r.segRaf
    /\ segEff' = r.segEff
    /\ lastOp' = r.lastOp
    /\ wheelNavAge' = r.wheelNavAge
    /\ wheelGap' = r.wheelGap
    /\ activeAge' = r.activeAge
    /\ autoCount' = r.autoCount
    /\ autoGap' = r.autoGap
    /\ qVisible' = r.qVisible
    /\ moveSees' = r.moveSees
    /\ moveEff' = r.moveEff
    /\ exitLeft' = r.exitLeft
    /\ orphanRaf' = r.orphanRaf
    /\ orphanListeners' = r.orphanListeners

\* the state s as a state of the model
Start(s) ==
  /\ page = s.page
  /\ index = s.index
  /\ qIndex = s.qIndex
  /\ progress = s.progress
  /\ qProgress = s.qProgress
  /\ effPending = s.effPending
  /\ listeners = s.listeners
  /\ touchStart = s.touchStart
  /\ isThrottled = s.isThrottled
  /\ timers = s.timers
  /\ rafCur = s.rafCur
  /\ rafQueue = s.rafQueue
  /\ startAge = s.startAge
  /\ menuOpen = s.menuOpen
  /\ visible = s.visible
  /\ isPlaying = s.isPlaying
  /\ vState = s.vState
  /\ vTime = s.vTime
  /\ segRef = s.segRef
  /\ segProgress = s.segProgress
  /\ qSeg = s.qSeg
  /\ segRaf = s.segRaf
  /\ segEff = s.segEff
  /\ lastOp = s.lastOp
  /\ wheelNavAge = s.wheelNavAge
  /\ wheelGap = s.wheelGap
  /\ activeAge = s.activeAge
  /\ autoCount = s.autoCount
  /\ autoGap = s.autoGap
  /\ qVisible = s.qVisible
  /\ moveSees = s.moveSees
  /\ moveEff = s.moveEff
  /\ exitLeft = s.exitLeft
  /\ orphanRaf = s.orphanRaf
  /\ orphanListeners = s.orphanListeners

\* a state setter: React drops an update that, with nothing queued, leaves the
\* state as it is
setIndex(s, v) ==
  IF s.qIndex = <<>> /\ s.index = v THEN s ELSE [s EXCEPT !.qIndex = <<v>>]

setProgress(s, v) ==
  IF s.qProgress = <<>> /\ s.progress = v THEN s ELSE [s EXCEPT !.qProgress = <<v>>]

\* setProgress of Segment i
setSegmentProgress(s, i, v) ==
  IF s.qSeg[i] = <<>> /\ s.segProgress[i] = v THEN s ELSE [s EXCEPT !.qSeg[i] = <<v>>]

go(s, i) == setIndex(s, GoValue(i, total(s.page)))
\* a next that moves by two
nextSkips(s, c) == go(s, c + 2)

next(s, c) == go(s, c + 1)

\* a prev that stays
prevStays(s, c) == go(s, c)

prev(s, c) == go(s, c - 1)

\* ---- animation frames ----
\* the id of a new request: the browser never hands an id out twice, and a ref
\* that holds the id of a callback no longer scheduled is held as 0 (cancelling
\* either does nothing), so only the ids still scheduled are kept apart
FreshId(q) ==
  CHOOSE i \in 1..(Cardinality(q) + 1) :
    /\ \A c \in q : c.id # i
    /\ \A j \in 1..(i - 1) : \E c \in q : c.id = j

cancelAnimationFrame(q, id) == {c \in q : c.id # id}

\* raf.current = requestAnimationFrame(step), step closing over the next of index c
RequestStep(s, c) ==
  LET id == FreshId(s.rafQueue)
  IN [s EXCEPT !.rafQueue = @ \cup {[id |-> id, kind |-> "step", idx |-> c, src |-> "none", at |-> 0]},
               !.rafCur = id]

\* a cancel that cancels nothing
CancelStepIdle(s) == s

\* cancelAnimationFrame(raf.current || 0) of the photo viewer
CancelStep(s) ==
  [s EXCEPT !.rafQueue = cancelAnimationFrame(@, s.rafCur), !.rafCur = 0]

\* a step that stops at the full duration without going on
stepHalts(s, cb) ==
  setProgress([s EXCEPT !.rafQueue = @ \ {cb},
                        !.rafCur = IF @ = cb.id THEN 0 ELSE @],
              Min(DurationMs, s.startAge))

\* a step that asks for more than the full duration
stepLate(s, cb) ==
  LET p == Min(DurationMs, s.startAge)
      s1 == setProgress([s EXCEPT !.rafQueue = @ \ {cb},
                                  !.rafCur = IF @ = cb.id THEN 0 ELSE @], p)
  IN IF p > DurationMs
       THEN next([s1 EXCEPT !.autoCount = @ + 1, !.autoGap = s.activeAge], cb.idx)
       ELSE RequestStep(s1, cb.idx)

\* step of the photo viewer's progress effect, run for the callback cb
step(s, cb) ==
  LET p == Min(DurationMs, s.startAge)
      s1 == setProgress([s EXCEPT !.rafQueue = @ \ {cb},
                                  !.rafCur = IF @ = cb.id THEN 0 ELSE @], p)
  IN IF p >= DurationMs
       THEN next([s1 EXCEPT !.autoCount = @ + 1, !.autoGap = s.activeAge], cb.idx)
       ELSE RequestStep(s1, cb.idx)

\* raf.current = requestAnimationFrame(update) of Segment i, update closing over
\* the element src: "active" (the element of the active slot), "dead" (an
\* element that was never played) or "exit" (the element that an index change
\* replaced, its currentTime then being at)
RequestUpdate(s, i, src, at) ==
  LET id == FreshId(s.rafQueue)
  IN [s EXCEPT !.rafQueue = @ \cup {[id |-> id, kind |-> "update", idx |-> i,
                                     src |-> src, at |-> at]},
               !.segRaf[i] = id]

\* cancelAnimationFrame(raf.current || 0) of Segment i
CancelUpdate(s, i) ==
  [s EXCEPT !.rafQueue = cancelAnimationFrame(@, s.segRaf[i]), !.segRaf[i] = 0]

\* v.currentTime of the element the callback cb closed over, in ms
ElTime(s, cb) ==
  IF cb.src = "active" THEN s.vTime
  ELSE IF cb.src = "exit" THEN cb.at
  ELSE 0

\* update of Segment, run for the callback cb; the metadata of an element is
\* taken as loaded, v.duration is VideoMs
update(s, cb) ==
  LET duration == Max(ClampMs, VideoMs)
      value == Ratio(ElTime(s, cb), duration)
      s1 == setSegmentProgress(
              [s EXCEPT !.rafQueue = @ \ {cb},
                        !.segRaf[cb.idx] = IF @ = cb.id THEN 0 ELSE @],
              cb.idx, value)
  IN RequestUpdate(s1, cb.idx, cb.src, cb.at)

\* ---- effects ----
\* a cleanup that removes nothing
RemoveListenersIdle(ls) == ls

\* the effect's cleanup: its own four listeners are removed
RemoveListeners(ls) == IF ls = <<>> THEN ls ELSE Tail(ls)
AddListeners(ls, c) == Append(ls, c)

\* the body of the photo viewer's progress effect
ProgressEffect(s) ==
  RequestStep(
    [setProgress(CancelStep(s), 0) EXCEPT !.startAge = 0, !.autoCount = 0],
    s.index)

\* the body of the video viewer's autoplay effect: the active element is sent
\* to time zero and asked to play; pausing the others, which never played,
\* changes nothing
AutoplayEffect(s) ==
  [s EXCEPT !.vTime = 0,
            !.vState = IF @ = "playing" THEN "playing" ELSE "starting"]

\* the effect of Segment i: the cleanup of its last run, then its body
SegmentEffect(s, i) ==
  LET s1 == CancelUpdate(s, i)
  IN IF s.segRef[i] = "none" THEN s1
     ELSE IF i = s.index
       THEN RequestUpdate(CancelUpdate(s1, i), i,
                          IF s.segRef[i] = "cur" THEN "active" ELSE "dead", 0)
       ELSE setSegmentProgress(CancelUpdate(s1, i), i, Ratio(0, 1))

RECURSIVE SegmentEffects(_, _)
SegmentEffects(s, i) ==
  IF i >= VideoCount THEN [s EXCEPT !.segEff = {}]
  ELSE SegmentEffects(IF i \in s.segEff THEN SegmentEffect(s, i) ELSE s, i + 1)

\* the effects that depend on the index: their cleanups, then their bodies
IndexEffects(s) ==
  LET s1 == [s EXCEPT !.listeners = RemoveListeners(@)]
      s2 == IF s.page = "photos" THEN CancelStep(s1) ELSE s1
      s3 == [s2 EXCEPT !.listeners = AddListeners(@, s.index)]
      s4 == IF s.page = "photos" THEN ProgressEffect(s3) ELSE AutoplayEffect(s3)
  IN [s4 EXCEPT !.effPending = FALSE]

\* the mousemove effect: the old onMove is removed, a new one, closed over
\* the committed visible, is added
MoveEffect(s) == [s EXCEPT !.moveSees = s.visible, !.moveEff = FALSE]

\* the passive effects of the last commit: the Segments', then the page's
RunEffects(s) ==
  LET s1 == SegmentEffects(s, 0)
      s2 == IF s.effPending THEN IndexEffects(s1) ELSE s1
  IN IF s.moveEff THEN MoveEffect(s2) ELSE s2

FlushPassive(s) ==
  IF s.effPending \/ s.segEff # {} \/ s.moveEff THEN RunEffects(s) ELSE s

\* a render of the video page: every Segment gets videoRefs.current[i] as it is
\* during the render, that is before the commit attaches the new elements of
\* the slots in toggled (those whose key changed)
ParentRender(s, toggled) ==
  IF s.page # "videos" THEN s
  ELSE [s EXCEPT !.segRef = [i \in Slots |-> IF i \in toggled THEN "prev" ELSE "cur"],
                 !.segEff = @ \cup toggled \cup {i \in Slots : s.segRef[i] # "cur"}]

\* the commit of an index change of the video page: the keys of the old and
\* the new active slot change, so both get a new element; the new active one
\* has autoPlay when isPlaying.  The element replaced stays in the document
\* while its exit animation runs (ExitMs), playing on if it played; it is no
\* longer in videoRefs, whose slot the new element's ref callback has taken
ReplaceElements(s, ni) ==
  [ParentRender(s, {s.index, ni}) EXCEPT
     !.vState = IF s.isPlaying THEN "starting" ELSE "idle",
     !.vTime = 0,
     !.exitLeft = IF s.vState = "playing" THEN ExitMs ELSE @,
     !.rafQueue = {IF c.src = "active" THEN [c EXCEPT !.src = "exit", !.at = s.vTime] ELSE c
                     : c \in @}]

\* a render that commits the pending index and, when all, the pending progress
Commit(s, all) ==
  LET ni == IF s.qIndex = <<>> THEN s.index ELSE s.qIndex[1]
      s1 == IF ni # s.index /\ s.page = "videos" THEN ReplaceElements(s, ni) ELSE s
      s2 == [s1 EXCEPT !.index = ni, !.qIndex = <<>>,
                       !.effPending = @ \/ ni # s.index,
                       !.activeAge = IF ni # s.index THEN 0 ELSE @]
  IN IF ~all THEN s2
     ELSE [s2 EXCEPT
             !.progress = IF s.qProgress # <<>> THEN s.qProgress[1] ELSE @,
             !.qProgress = <<>>,
             !.segProgress = [i \in Slots |-> IF s.qSeg[i] # <<>> THEN s.qSeg[i][1] ELSE @[i]],
             !.qSeg = [i \in Slots |-> <<>>],
             !.visible = IF s.qVisible # <<>> THEN s.qVisible[1] ELSE @,
             !.qVisible = <<>>,
             !.moveEff = @ \/ (s.qVisible # <<>> /\ s.qVisible[1] # s.visible)]

\* the synchronous flush that follows a discrete event that set the index
SyncFlush(s) == FlushPassive(Commit(FlushPassive(s), FALSE))

\* the synchronous render that follows a discrete event that set other state
SyncParent(s) == FlushPassive(ParentRender(FlushPassive(s), {}))

\* the cleanups of the Segments from i on: a Segment whose effect returned
\* early (no videoRef) has none
RECURSIVE SegmentCleanups(_, _)
SegmentCleanups(s, i) ==
  IF i >= VideoCount THEN s
  ELSE SegmentCleanups(IF s.segRef[i] = "none" THEN s ELSE CancelUpdate(s, i), i + 1)

\* the unmount of a page: the cleanups of its effects
Unmount(s) ==
  LET s1 == [s EXCEPT !.listeners = RemoveListeners(@)]
  IN IF s.page = "photos" THEN CancelStep(s1) ELSE SegmentCleanups(s1, 0)

\* the first render of a page and its mount effects
Mount(p) ==
  LET s0 == [page |-> p, index |-> 0, qIndex |-> <<>>, progress |-> 0,
             qProgress |-> <<>>, effPending |-> FALSE, listeners |-> <<>>,
             touchStart |-> <<>>, isThrottled |-> FALSE, timers |-> <<>>,
             rafCur |-> 0, rafQueue |-> {}, startAge |-> 0,
             menuOpen |-> FALSE, visible |-> TRUE, isPlaying |-> TRUE,
             vState |-> "idle", vTime |-> 0,
             segRef |-> [i \in Slots |-> "none"],
             segProgress |-> [i \in Slots |-> Ratio(0, 1)],
             qSeg |-> [i \in Slots |-> <<>>],
             segRaf |-> [i \in Slots |-> 0], segEff |-> {},
             lastOp |-> "mount",
             wheelNavAge |-> WheelThrottleMs, wheelGap |-> WheelThrottleMs,
             activeAge |-> 0, autoCount |-> 0, autoGap |-> DurationMs,
             qVisible |-> <<>>, moveSees |-> TRUE, moveEff |-> FALSE,
             exitLeft |-> 0, orphanRaf |-> 0, orphanListeners |-> 0]
      s1 == [s0 EXCEPT !.listeners = AddListeners(@, 0)]
  IN IF p = "photos" THEN ProgressEffect(s1) ELSE AutoplayEffect(s1)

NoCall == /\ callArg' = callArg /\ callCount' = callCount

Init ==
  /\ \E p \in Pages : Start(Mount(p))
  /\ frameDue = FALSE
  /\ rtStart = <<>>
  /\ callArg = 0
  /\ callCount = 1

\* ---- handlers of useWheelAndSwipe, for the listener whose next/prev closed over c ----
\* an onWheel that does not look at isThrottled
onWheelUnthrottled(s, c, d) ==
  IF Abs(d) < WheelDeltaMin THEN [s EXCEPT !.lastOp = "none"]
  ELSE LET s1 == IF d > 0 THEN next(s, c) ELSE prev(s, c)
       IN [s1 EXCEPT !.isThrottled = TRUE,
                     !.timers = Append(@, WheelThrottleMs),
                     !.lastOp = "none",
                     !.wheelGap = s.wheelNavAge,
                     !.wheelNavAge = 0]

\* an onWheel that takes every deltaY
onWheelAnyDelta(s, c, d) ==
  IF s.isThrottled THEN [s EXCEPT !.lastOp = "none"]
  ELSE LET s1 == IF d > 0 THEN next(s, c) ELSE prev(s, c)
       IN [s1 EXCEPT !.isThrottled = TRUE,
                     !.timers = Append(@, WheelThrottleMs),
                     !.lastOp = "none",
                     !.wheelGap = s.wheelNavAge,
                     !.wheelNavAge = 0]

onWheel(s, c, d) ==
  IF s.isThrottled THEN [s EXCEPT !.lastOp = "none"]
  ELSE IF Abs(d) < WheelDeltaMin THEN [s EXCEPT !.lastOp = "none"]
  ELSE LET s1 == IF d > 0 THEN next(s, c) ELSE prev(s, c)
       IN [s1 EXCEPT !.isThrottled = TRUE,
                     !.timers = Append(@, WheelThrottleMs),
                     !.lastOp = "none",
                     !.wheelGap = s.wheelNavAge,
                     !.wheelNavAge = 0]

onTouchStart(s, pt) == [s EXCEPT !.touchStart = pt, !.lastOp = "none"]

\* an onTouchEnd that takes a swipe of exactly the threshold
onTouchEndLoose(s, c, x, y) ==
  IF s.touchStart = <<>> THEN [s EXCEPT !.lastOp = "none"]
  ELSE LET dx == x - s.touchStart[1]
           dy == y - s.touchStart[2]
           isHorizontal == Abs(dx) > Abs(dy)
           s1 == IF isHorizontal /\ Abs(dx) >= SwipeThreshold
                   THEN IF dx < 0
                          THEN [next(s, c) EXCEPT !.lastOp = "swipeNext"]
                          ELSE [prev(s, c) EXCEPT !.lastOp = "swipePrev"]
                   ELSE [s EXCEPT !.lastOp = "none"]
       IN [s1 EXCEPT !.touchStart = <<>>]

onTouchEnd(s, c, x, y) ==
  IF s.touchStart = <<>> THEN [s EXCEPT !.lastOp = "none"]
  ELSE LET dx == x - s.touchStart[1]
           dy == y - s.touchStart[2]
           isHorizontal == Abs(dx) > Abs(dy)
           s1 == IF isHorizontal /\ Abs(dx) > SwipeThreshold
                   THEN IF dx < 0
                          THEN [next(s, c) EXCEPT !.lastOp = "swipeNext"]
                          ELSE [prev(s, c) EXCEPT !.lastOp = "swipePrev"]
                   ELSE [s EXCEPT !.lastOp = "none"]
       IN [s1 EXCEPT !.touchStart = <<>>]

\* ---- events ----
Keep == /\ frameDue' = frameDue /\ NoCall

\* Next button: onClick calls the next of the current render
ClickNext ==
  /\ ~menuOpen
  /\ Install([SyncFlush(next(Cur, index)) EXCEPT !.lastOp = "none"])
  /\ rtStart' = <<index>>
  /\ Keep

\* Previous button: onClick calls the prev of the current render
ClickPrev ==
  /\ ~menuOpen
  /\ Install([SyncFlush(prev(Cur, index)) EXCEPT !.lastOp = "none"])
  /\ rtStart' = IF Len(rtStart) = 1 THEN <<rtStart[1], 1>> ELSE <<>>
  /\ Keep

\* a wheel event: of the listeners registered, the first one acts and leaves
\* the others throttled
Wheel(d) ==
  /\ listeners # <<>>
  /\ Install(onWheel(Cur, Head(listeners), d))
  /\ rtStart' = <<>>
  /\ Keep

TouchStart(pt) ==
  /\ listeners # <<>>
  /\ Install(onTouchStart(Cur, pt))
  /\ rtStart' = <<>>
  /\ Keep

\* a touchend event: the first listener acts and clears the start point
TouchEnd(x, y) ==
  /\ listeners # <<>>
  /\ rtStart' = <<>>
  /\ Keep
  /\ LET s == onTouchEnd(Cur, Head(listeners), x, y)
     IN Install(IF s.lastOp \in {"swipeNext", "swipePrev"} THEN SyncFlush(s) ELSE s)

\* a timer callback that leaves the flag set
releaseKeeps(s) == [s EXCEPT !.timers = Tail(@)]

\* the setTimeout callback of onWheel: isThrottled.current = false
release(s) == [s EXCEPT !.isThrottled = FALSE, !.timers = Tail(@)]

\* the release timer of onWheel is due and runs
ReleaseTimer ==
  /\ timers # <<>>
  /\ Head(timers) = 0
  /\ Install([release(Cur) EXCEPT !.lastOp = "released"])
  /\ rtStart' = <<>>
  /\ Keep

Pending(s) ==
  \/ s.qIndex # <<>>
  \/ s.qProgress # <<>>
  \/ \E i \in Slots : s.qSeg[i] # <<>>
  \/ s.qVisible # <<>>

\* a render task of the scheduler
Render ==
  /\ Pending(Cur)
  /\ Install([Commit(FlushPassive(Cur), TRUE) EXCEPT !.lastOp = "none"])
  /\ rtStart' = <<>>
  /\ Keep

\* the passive effects of the last commit
FlushEffects ==
  /\ effPending \/ segEff # {} \/ moveEff
  /\ Install([RunEffects(Cur) EXCEPT !.lastOp = "none"])
  /\ rtStart' = <<>>
  /\ Keep

RunCallback(s, cb) == IF cb.kind = "step" THEN step(s, cb) ELSE update(s, cb)

\* the animation frame of the current instant
Frame ==
  /\ frameDue
  /\ \/ /\ rafQueue = {}
        /\ Install([Cur EXCEPT !.lastOp = "none"])
     \/ \E cb \in rafQueue : Install([RunCallback(Cur, cb) EXCEPT !.lastOp = "none"])
  /\ frameDue' = FALSE
  /\ rtStart' = <<>>
  /\ NoCall

Age(a, cap) == Min(cap, a + TickMs)

\* the active element plays and is at its end: its pause and ended events are due
ActiveAtEnd(s) == s.vState = "playing" /\ s.vTime >= VideoMs

\* nothing is left to do at this instant
Settled ==
  /\ ~frameDue
  /\ ~Pending(Cur)
  /\ ~effPending
  /\ segEff = {}
  /\ ~moveEff
  /\ ~ActiveAtEnd(Cur)

\* TickMs pass
Tick ==
  /\ Settled
  /\ Install([Cur EXCEPT !.startAge = IF page = "photos" THEN Age(@, DurationMs) ELSE @,
                         !.timers = [k \in 1..Len(@) |-> Max(0, @[k] - TickMs)],
                         !.vTime = IF vState = "playing" THEN Age(@, VideoMs) ELSE @,
                         !.exitLeft = Max(0, @ - TickMs),
                         !.wheelNavAge = Age(@, WheelThrottleMs),
                         !.activeAge = IF page = "photos" THEN Age(@, DurationMs) ELSE @,
                         !.lastOp = "none"])
  /\ frameDue' = TRUE
  /\ rtStart' = <<>>
  /\ NoCall

\* ---- the active video element ----
setIsPlaying(s, b) == IF s.isPlaying = b THEN s ELSE SyncParent([s EXCEPT !.isPlaying = b])

\* play() is let through: the play event, onPlay
PlayStarts ==
  /\ vState = "starting"
  /\ Install([setIsPlaying([Cur EXCEPT !.vState = "playing"], TRUE) EXCEPT !.lastOp = "none"])
  /\ rtStart' = <<>>
  /\ Keep

\* a catch that skips to the next item
catchPlaySkips(s) == next([s EXCEPT !.vState = "idle"], s.index)

\* playPromise.catch(() => {}): the element stays as it is, not playing
catchPlay(s) == [s EXCEPT !.vState = "idle"]

\* play() is rejected: the catch swallows it
PlayRejected ==
  /\ vState = "starting"
  /\ Install([catchPlay(Cur) EXCEPT !.lastOp = "none"])
  /\ rtStart' = <<>>
  /\ Keep

\* an ended handler that leaves the index alone
onVideoEndedIdle(s, c) == s

\* the handler closed over index c
onVideoEnded(s, c) == next(s, c)

\* the active element reaches its end: the pause event (onPause), then the
\* ended event (onEnded)
VideoEnds ==
  /\ ActiveAtEnd(Cur)
  /\ LET s1 == setIsPlaying([Cur EXCEPT !.vState = "ended"], FALSE)
     IN Install([onVideoEnded(s1, index) EXCEPT !.lastOp = "ended"])
  /\ rtStart' = <<>>
  /\ Keep

\* ---- menu and overlay ----
\* setVisible(true) of onMove; a set to the value the state has, with nothing
\* pending, is dropped
setVisible(s, v) ==
  IF s.qVisible = <<>> /\ s.visible = v THEN s ELSE [s EXCEPT !.qVisible = <<v>>]

\* toggle: setVisible(v => !v) in a click; the updater is applied to the value
\* the queue holds, and the click's render commits the result
toggle(s) ==
  LET v == IF s.qVisible # <<>> THEN s.qVisible[1] ELSE s.visible
  IN [s EXCEPT !.visible = ~v, !.qVisible = <<>>, !.moveEff = @ \/ (~v) # s.visible]

onMoveInverted(s) == IF s.moveSees THEN setVisible(s, TRUE) ELSE s

\* onMove of the registered mousemove listener
onMove(s) == IF ~s.moveSees THEN setVisible(s, TRUE) ELSE s

\* a mousemove event on the window
MouseMove ==
  /\ Install([onMove(Cur) EXCEPT !.lastOp = "none"])
  /\ rtStart' = <<>>
  /\ Keep

\* Menu button
OpenMenu ==
  /\ ~menuOpen
  /\ Install([SyncParent([Cur EXCEPT !.menuOpen = TRUE]) EXCEPT !.lastOp = "none"])
  /\ rtStart' = <<>>
  /\ Keep

\* Close Menu button: onClose, and the click bubbles to the root's onTap
CloseMenu ==
  /\ menuOpen
  /\ Install([SyncParent(toggle([Cur EXCEPT !.menuOpen = FALSE]))
                EXCEPT !.lastOp = "none"])
  /\ rtStart' = <<>>
  /\ Keep

\* a click that reaches the root: toggle
Tap ==
  /\ Install([SyncParent(toggle(Cur)) EXCEPT !.lastOp = "none"])
  /\ rtStart' = <<>>
  /\ Keep

\* the menu's link to the other viewer: navigate unmounts this page, whose
\* cleanups run, and mounts the other; what the cleanups leave behind stays
\* with the window
GoOther ==
  /\ menuOpen
  /\ LET u == Unmount(FlushPassive(Cur))
     IN Install([Mount(IF page = "photos" THEN "videos" ELSE "photos") EXCEPT
                   !.orphanRaf = Min(MaxOrphans, orphanRaf + Cardinality(u.rafQueue)),
                   !.orphanListeners = Min(MaxOrphans, orphanListeners + Len(u.listeners))])
  /\ rtStart' = <<>>
  /\ Keep

Next ==
  \/ ClickNext
  \/ ClickPrev
  \/ \E d \in WheelDeltas : Wheel(d)
  \/ \E pt \in StartPoints : TouchStart(pt)
  \/ \E pt \in EndPoints : TouchEnd(pt[1], pt[2])
  \/ ReleaseTimer
  \/ Render
  \/ FlushEffects
  \/ Frame
  \/ Tick
  \/ PlayStarts
  \/ PlayRejected
  \/ VideoEnds
  \/ OpenMenu
  \/ CloseMenu
  \/ Tap
  \/ GoOther

Spec == Init /\ [][Next]_vars

\* ---- go on its own: every argument, every item count ----
InitGo ==
  /\ Start(Mount("photos"))
  /\ frameDue = FALSE
  /\ rtStart = <<>>
  /\ callArg \in (-MaxArg)..MaxArg
  /\ callCount \in 1..MaxCount

\* go(callArg) in a viewer of callCount items, and the render of its update
GoCall ==
  /\ lastOp = "mount"
  /\ Install([Cur EXCEPT !.index = GoValue(callArg, callCount), !.lastOp = "go"])
  /\ rtStart' = rtStart
  /\ Keep

\* go(callArg + callCount) in the same viewer
GoShifted ==
  /\ lastOp = "go"
  /\ Install([Cur EXCEPT !.qIndex = <<GoValue(callArg + callCount, callCount)>>,
                         !.lastOp = "shifted"])
  /\ rtStart' = rtStart
  /\ Keep

NextGo == GoCall \/ GoShifted

SpecGo == InitGo /\ [][NextGo]_vars

\* ---- the overlay on its own: pointer moves, clicks, renders ----
NextOverlay ==
  \/ MouseMove
  \/ Tap
  \/ OpenMenu
  \/ CloseMenu
  \/ GoOther
  \/ ClickNext
  \/ ClickPrev
  \/ Render
  \/ FlushEffects
  \/ PlayStarts
  \/ PlayRejected

SpecOverlay == Init /\ [][NextOverlay]_vars

\* ---- the wheel on its own: wheel events, the release timer, time ----
\* a wheel event, with a note of whether its deltaY was below the limit
WheelSeen(d) ==
  /\ listeners # <<>>
  /\ Install([onWheel(Cur, Head(listeners), d) EXCEPT
                !.lastOp = IF Abs(d) < WheelDeltaMin THEN "wheelSmall" ELSE "wheel"])
  /\ rtStart' = <<>>
  /\ Keep

NextWheel ==
  \/ \E d \in WheelDeltas : WheelSeen(d)
  \/ ReleaseTimer
  \/ Render
  \/ FlushEffects
  \/ Frame
  \/ Tick
  \/ PlayStarts
  \/ VideoEnds

SpecWheel == Init /\ [][NextWheel]_vars

\* ---- the photo viewer with the event loop at work ----
InitPhotos ==
  /\ Start(Mount("photos"))
  /\ frameDue = FALSE
  /\ rtStart = <<>>
  /\ callArg = 0
  /\ callCount = 1

\* wheel events on the photo viewer
NextThrottle ==
  \/ \E d \in WheelDeltas : WheelSeen(d)
  \/ ReleaseTimer
  \/ Render
  \/ FlushEffects
  \/ Frame
  \/ Tick

\* due timers, frames, React's renders and effects run, and time passes
SpecThrottle ==
  /\ InitPhotos
  /\ [][NextThrottle]_vars
  /\ WF_vars(ReleaseTimer)
  /\ WF_vars(Render)
  /\ WF_vars(FlushEffects)
  /\ WF_vars(Frame)
  /\ WF_vars(Tick)

\* the photo viewer left alone: no user input
NextAuto ==
  \/ Render
  \/ FlushEffects
  \/ Frame
  \/ Tick

SpecAuto ==
  /\ InitPhotos
  /\ [][NextAuto]_vars
  /\ WF_vars(Render)
  /\ WF_vars(FlushEffects)
  /\ WF_vars(Frame)
  /\ WF_vars(Tick)

\* the width the timeline gives Segment i
SegmentWidth(i) == IF i = index THEN segProgress[i] ELSE Ratio(0, 1)

\* ---- claims ----

\* C1: go(t) shows the item ((t mod n) + n) mod n, inside 0..n-1, for every
\* integer t and every item count n > 0, and go(t + n) shows the same item
C1_GoWrapsEveryInteger ==
  /\ lastOp \in {"go", "shifted"} =>
       /\ index = ((callArg % callCount) + callCount) % callCount
       /\ index \in 0..(callCount - 1)
  /\ lastOp = "shifted" => qIndex = <<index>>

\* C2: in both viewers the index starts at 0 and stays inside 0..n-1 after any
\* sequence of navigations
C2_IndexInRange == index \in 0..(total(page) - 1)

\* C2: a swipe to the previous item at index 0 has wrapped to the last photo
C2_Witness ==
  /\ page = "photos"
  /\ lastOp = "swipePrev"
  /\ index = PhotoCount - 1

\* C3: photo viewer: whenever the rendered index changes, the rendered
\* progress is 0 in the same render
C3_ProgressResetsWithIndex ==
  [][(page = "photos" /\ page' = "photos" /\ index' # index) => progress' = 0]_vars

\* C4: video viewer: once the frame has run and React has rendered, every
\* inactive segment shows 0 and the active one min(1, currentTime / duration)
\* of the element that plays
C4_SegmentShowsActiveElement ==
  (page = "videos" /\ Settled) =>
    \A i \in Slots :
      SegmentWidth(i) = IF i = index THEN Ratio(vTime, Max(ClampMs, VideoMs))
                        ELSE Ratio(0, 1)

C7_WheelNavigationsApart == wheelGap >= WheelThrottleMs

\* C7: a wheel event has just navigated through a listener that was
\* registered again after an index change
C7_Witness ==
  /\ wheelNavAge = 0
  /\ isThrottled
  /\ Head(listeners) # 0
  /\ wheelGap >= WheelThrottleMs

\* C8: photo viewer: step calls next() once the item's timer has run for
\* DurationMs, and at most once per start of the timer
C8_AutoAdvanceOnce ==
  page = "photos" =>
    /\ autoCount <= 1
    /\ (startAge >= DurationMs /\ ~frameDue) => autoCount = 1

\* C8: the timer ran out and step has called next()
C8_Witness ==
  /\ page = "photos"
  /\ autoCount = 1
  /\ startAge >= DurationMs
  /\ qIndex = <<1>>

\* C9: photo viewer: step calls next() only when the item shown has been
\* active for DurationMs; a callback of the item before never navigates
C9_FreshWindow == autoGap >= DurationMs

\* C10: a touchend with no start point does nothing; one with a start point is
\* a swipe when |dx| > |dy| and |dx| > SwipeThreshold, to the next item when
\* dx < 0 and to the previous one when dx > 0; the start point is cleared
C10_SwipeClassified ==
  [][\A pt \in EndPoints :
       \/ /\ touchStart' = <<>>
          /\ IF touchStart = <<>>
               THEN index' = index /\ qIndex' = qIndex /\ lastOp' = "none"
               ELSE LET dx == pt[1] - touchStart[1]
                        dy == pt[2] - touchStart[2]
                        c == Head(listeners)
                        n == total(page)
                    IN /\ ~effPending => c = index
                       /\ IF Abs(dx) > Abs(dy) /\ Abs(dx) > SwipeThreshold
                            THEN IF dx < 0
                                   THEN lastOp' = "swipeNext" /\ index' = (c + 1) % n
                                   ELSE lastOp' = "swipePrev" /\ index' = (c + n - 1) % n
                            ELSE index' = index /\ qIndex' = qIndex /\ lastOp' = "none"
       \/ ~TouchEnd(pt[1], pt[2])]_vars

\* C10: a swipe to the left has just moved to the next item
C10_Witness ==
  /\ lastOp = "swipeNext"
  /\ touchStart = <<>>

\* C11: the Menu button and the Close Menu button change only menuOpen: the
\* index and the overlay's visibility are after the click what they were
C11_MenuChangesOnlyMenuOpen ==
  [][(OpenMenu \/ CloseMenu) =>
       /\ index' = index
       /\ qIndex' = qIndex
       /\ visible' = visible]_vars

\* C12: the overlay starts visible; a toggle of a visible overlay hides it; a
\* pointer move asks for nothing but visible = true, asks for it whenever the
\* overlay is hidden, and never hides a visible overlay, and the render that
\* follows shows what was asked for
C12_PointerMoveShows ==
  /\ visible = TRUE
  /\ [][
        /\ MouseMove =>
             /\ visible' = visible
             /\ qVisible' \in {<<>>, <<TRUE>>}
             /\ visible' \/ qVisible' = <<TRUE>>
        /\ Render => (visible' = (IF qVisible # <<>> THEN qVisible[1] ELSE visible))
        /\ (Tap /\ visible) => ~visible'
     ]_vars

\* a pointer move found the overlay hidden and asked for it to be shown
C12_Witness == ~visible /\ qVisible = <<TRUE>> /\ ~moveSees

\* C13: in the video viewer the ended event of the active element asks for
\* the index (index + 1) mod VideoCount and the next render shows it, and an
\* animation frame, whatever progress it reports, leaves the index alone
C13_EndedAdvances ==
  [][
      /\ (index' = index /\ qIndex' = <<(index + 1) % VideoCount>>) \/ ~VideoEnds
      /\ (index' = index /\ qIndex' = qIndex) \/ page # "videos" \/ ~Frame
      /\ qIndex = <<>> \/ index' = qIndex[1] \/ ~Render
  ]_vars

\* the active Segment reported progress 1, then the ended event fired
C13_Witness ==
  /\ lastOp = "ended"
  /\ segProgress[index] = <<1, 1>>
  /\ qIndex = <<(index + 1) % VideoCount>>

\* C14: when nothing is left to do at an instant of the video viewer, at most
\* one media element plays: no replaced element plays on beside the active one
C14_OneElementPlays ==
  (Settled /\ page = "videos") => ~(vState = "playing" /\ exitLeft > 0)

\* C15: a wheel event whose |deltaY| is below 20 leaves the index and the
\* pending index update as they are, throttled or not
C15_SmallWheelIgnored ==
  [][\A d \in WheelDeltas :
       \/ Abs(d) >= WheelDeltaMin
       \/ (index' = index /\ qIndex' = qIndex /\ isThrottled' = isThrottled
            /\ timers' = timers)
       \/ ~WheelSeen(d)]_vars

\* a wheel event below the limit arrived while the throttle was open
C15_Witness == lastOp = "wheelSmall" /\ ~isThrottled /\ index # 0

\* C16: a rejected play request changes none of the index, the overlay's
\* visibility, the menu and the isPlaying state, and queues no update of them
C16_RejectedPlaySwallowed ==
  [][\/ /\ index' = index
        /\ qIndex' = qIndex
        /\ visible' = visible
        /\ qVisible' = qVisible
        /\ menuOpen' = menuOpen
        /\ isPlaying' = isPlaying
     \/ ~PlayRejected]_vars

\* the play request of the active element of item 1 was rejected
C16_Witness == page = "videos" /\ vState = "idle" /\ ~effPending /\ index = 1

\* the callbacks scheduled by the photo viewer's timer
StepCallbacks == {c \in rafQueue : c.kind = "step"}

\* the callbacks scheduled by Segment i
UpdateCallbacks(i) == {c \in rafQueue : c.kind = "update" /\ c.idx = i}

\* C17: the photo timer and every video Segment have at most one animation
\* frame callback scheduled at any time; once the effects of a commit have
\* run, a Segment that is not active has none; an unmounted viewer leaves none
C17_AtMostOneCallback ==
  /\ Cardinality(StepCallbacks) <= 1
  /\ \A i \in Slots : Cardinality(UpdateCallbacks(i)) <= 1
  /\ page = "photos" => \A i \in Slots : UpdateCallbacks(i) = {}
  /\ page = "videos" => StepCallbacks = {}
  /\ (page = "videos" /\ segEff = {} /\ ~effPending) =>
       \A i \in Slots \ {index} : UpdateCallbacks(i) = {}
  /\ orphanRaf = 0

\* a Segment that had reported progress was deactivated and its effect has
\* run (its progress is being reset): it has no callback, the active one has one
C17_Witness ==
  /\ page = "videos"
  /\ segEff = {}
  /\ ~effPending
  /\ Cardinality(UpdateCallbacks(index)) = 1
  /\ \E i \in Slots \ {index} :
       /\ segProgress[i] # <<0, 1>>
       /\ qSeg[i] = << <<0, 1>> >>
       /\ UpdateCallbacks(i) = {}

\* C18: a mounted viewer has exactly one set of wheel, touchstart, touchmove
\* and touchend listeners registered, also after the re-registrations that
\* follow index changes, and an unmounted viewer leaves none registered
C18_OneListenerSet ==
  /\ Len(listeners) = 1
  /\ orphanListeners = 0

\* the index changed twice and the listeners were re-registered each time:
\* one set is registered, whose next and prev closed over the index shown
C18_Witness ==
  /\ Len(listeners) = 1
  /\ Head(listeners) = index
  /\ index = 2
  /\ ~effPending

\* C19: while the wheel throttle is set exactly one release timer is pending,
\* due 400 ms after the navigation that set it, and none is pending otherwise;
\* a throttle that is set is released in the end, whatever re-registrations
\* of the listeners happen in between
C19_ThrottleReleased ==
  /\ [](isThrottled => timers = <<WheelThrottleMs - wheelNavAge>>)
  /\ [](~isThrottled => timers = <<>>)
  /\ (isThrottled ~> ~isThrottled)

\* the release timer ran after the listeners had been re-registered for the
\* index that the throttled wheel navigation led to
C19_Witness ==
  /\ lastOp = "released"
  /\ ~isThrottled
  /\ Head(listeners) = index
  /\ index # 0

\* C20: the photo viewer left alone never stalls: every item is shown again
\* and again, and the index only ever changes to the next item in list order
C20_AutoAdvanceForever ==
  /\ \A i \in 0..(PhotoCount - 1) : []<>(index = i)
  /\ [][index' # index => index' = (index + 1) % PhotoCount]_vars

\* the last item was shown for its full time and the first one is shown
\* again; the listeners still are those of the last item
C20_Witness ==
  /\ index = 0
  /\ Head(listeners) = PhotoCount - 1
  /\ effPending
  /\ autoGap = DurationMs
====
